---------------------------- MODULE Spec2Model ----------------------------
(***************************************************************************)
(* A model of stp_simulation.py: a Network owning an insertion-ordered     *)
(* dictionary of Switch objects, each with per-port neighbor lists, a      *)
(* per-port forwarding vector and its hello parameters.  One action per    *)
(* method of Network; the per-switch round is a pure operator folded over  *)
(* the dictionary in insertion order, updating in place.                   *)
(***************************************************************************)
EXTENDS Integers, Sequences, FiniteSets, TLC

(***************************************************************************)
(* Bounds of the model.                                                    *)
(***************************************************************************)
MaxId == 2            \* switch ids of a well-formed build are 0..MaxId
MaxCallerId == 1      \* switch ids an arbitrary caller passes are 0..MaxCallerId
MaxPorts == 2         \* a switch has 1..MaxPorts ports
MaxWeight == 2        \* a switch has weight 1..MaxWeight
MaxGroup == 3         \* a connection has 2..MaxGroup endpoints
MaxNbrs == 4          \* longest neighbor list
MaxDist == 8          \* largest dist_from_root
MaxConnections == 2   \* connections given to add_connections in a well-formed build
MaxCallerConnections == 1   \* connections an arbitrary caller gives to add_connections
MaxRounds == 5        \* the round count saturates here
MaxLinks == 3         \* connections made in a growing network
MaxMeshId == 3        \* switch ids of the driver's network are 0..MaxMeshId
MeshPorts == 3        \* every switch of the driver's network has this many ports
MaxMeshConnections == 5     \* connections the driver gives to add_connections

SwitchIds == 0..MaxId
CallerIds == 0..MaxCallerId
PortCounts == 1..MaxPorts
Weights == 1..MaxWeight
\* port numbers a caller passes; MaxPorts itself is out of range for every switch
PortArgs == 0..MaxPorts
Groups == UNION {[1..k -> CallerIds \X PortArgs] : k \in 2..MaxGroup}
MeshIds == 0..MaxMeshId

VARIABLES
    switches,   \* Network.switches: id -> Switch object (its fields)
    order,      \* insertion order of the keys of Network.switches
    connected,  \* how many connections add_connections has been given so far
    segments,   \* the connections add_connections completed, as sets of endpoints
    last,       \* the last call made on the network and how it ended
    since,      \* the last call other than run_sycl
    rounds      \* run_sycl calls made since then (saturating at MaxRounds)

vars == <<switches, order, connected, segments, last, since, rounds>>

(***************************************************************************)
(* Switch.__init__                                                         *)
(***************************************************************************)
Switch(switch_id, num_of_ports, weight) ==
    [ id             |-> switch_id,
      num_of_ports   |-> num_of_ports,
      neighbors      |-> [p \in 0..(num_of_ports - 1) |-> << >>],
      pots_status    |-> [p \in 0..(num_of_ports - 1) |-> TRUE],
      root_id        |-> switch_id,
      dist_from_root |-> 0,
      root_port      |-> 0 - 1,
      closest_switch |-> switch_id,
      weight         |-> weight ]

(***************************************************************************)
(* Python tuple comparison (lexicographic) on tuples of integers.          *)
(***************************************************************************)
RECURSIVE TupleLess(_, _, _)
TupleLess(a, b, k) ==
    IF k > Len(a) THEN FALSE
    ELSE IF a[k] < b[k] THEN TRUE
    ELSE IF a[k] > b[k] THEN FALSE
    ELSE TupleLess(a, b, k + 1)

Less(a, b) == TupleLess(a, b, 1)

\* min(...) of a non-empty collection of tuples
Min(msgs) == CHOOSE m \in msgs : \A o \in msgs : ~Less(o, m)

(***************************************************************************)
(* Switch.get_hello_message                                                *)
(***************************************************************************)
get_hello_message(s) == <<s.root_id, s.dist_from_root, s.id>>

(***************************************************************************)
(* Switch.run_sycl, lines 57-62: the gathered hello messages.  The list is *)
(* only tested for emptiness, filtered by port and passed to min, so its   *)
(* elements are kept as a set.  The neighbors are read from S, the live    *)
(* objects at the time of the call.                                        *)
(***************************************************************************)
hello_messages(S, s) ==
    { <<S[s.neighbors[p][k]].root_id,
        S[s.neighbors[p][k]].dist_from_root,
        S[s.neighbors[p][k]].id,
        p>> : <<p, k>> \in { pk \in (0..(s.num_of_ports - 1)) \X (1..MaxNbrs + 1) :
                               pk[2] <= Len(s.neighbors[pk[1]]) } }

(***************************************************************************)
(* Switch.set_hello_parameters / reset_hello_parameters                    *)
(***************************************************************************)
set_hello_parameters(s, root_id, dist_from_root, closest_switch, root_port) ==
    [s EXCEPT !.root_id = root_id,
              !.dist_from_root = dist_from_root,
              !.closest_switch = closest_switch,
              !.root_port = root_port]

reset_hello_parameters(s) == set_hello_parameters(s, s.id, 0, s.id, 0 - 1)

(***************************************************************************)
(* Switch.update_hello_parameters_by_neighbors                             *)
(***************************************************************************)
\* variant: the switch also resets when the best message is the one it had
update_hello_parameters_strict(s, msgs) ==
    IF msgs = {} THEN reset_hello_parameters(s)
    ELSE LET last_min_message ==
                 <<s.root_id, s.dist_from_root - s.weight, s.closest_switch, s.root_port>>
             min_message == Min(msgs)
         IN  IF ~Less(min_message, last_min_message)
             THEN reset_hello_parameters(s)
             ELSE set_hello_parameters(s, min_message[1], min_message[2] + s.weight,
                                       min_message[3], min_message[4])

\* variant: a switch that hears nothing keeps what it believed
update_hello_parameters_keeping(s, msgs) ==
    IF msgs = {} THEN s
    ELSE LET last_min_message ==
                 <<s.root_id, s.dist_from_root - s.weight, s.closest_switch, s.root_port>>
             min_message == Min(msgs)
         IN  IF Less(last_min_message, min_message)
             THEN reset_hello_parameters(s)
             ELSE set_hello_parameters(s, min_message[1], min_message[2] + s.weight,
                                       min_message[3], min_message[4])

\* variant: the least message is taken over without the comparison
update_hello_parameters_adopting(s, msgs) ==
    IF msgs = {} THEN reset_hello_parameters(s)
    ELSE LET min_message == Min(msgs)
         IN  set_hello_parameters(s, min_message[1], min_message[2] + s.weight,
                                  min_message[3], min_message[4])

\* variant: the distance is taken over without adding the switch's weight
update_hello_parameters_unweighted(s, msgs) ==
    IF msgs = {} THEN reset_hello_parameters(s)
    ELSE LET last_min_message ==
                 <<s.root_id, s.dist_from_root - s.weight, s.closest_switch, s.root_port>>
             min_message == Min(msgs)
         IN  IF Less(last_min_message, min_message)
             THEN reset_hello_parameters(s)
             ELSE set_hello_parameters(s, min_message[1], min_message[2],
                                       min_message[3], min_message[4])

update_hello_parameters_by_neighbors(s, msgs) ==
    IF msgs = {} THEN reset_hello_parameters(s)
    ELSE LET last_min_message ==
                 <<s.root_id, s.dist_from_root - s.weight, s.closest_switch, s.root_port>>
             min_message == Min(msgs)
         IN  IF Less(last_min_message, min_message)
             THEN reset_hello_parameters(s)
             ELSE set_hello_parameters(s, min_message[1], min_message[2] + s.weight,
                                       min_message[3], min_message[4])

(***************************************************************************)
(* Switch.update_port_status: the new status of one port                   *)
(***************************************************************************)
\* variant: the best supplier is recognised by its root instead of its id
update_port_status_by_root(s, port_num, port_hello_messages) ==
    LET is_it_my_root_port == port_num = s.root_port
        my_message == get_hello_message(s)
        min_message == Min(port_hello_messages \cup {my_message})
        im_the_best_supplier == min_message[1] = s.root_id
    IN  is_it_my_root_port \/ im_the_best_supplier

update_port_status(s, port_num, port_hello_messages) ==
    LET is_it_my_root_port == port_num = s.root_port
        my_message == get_hello_message(s)
        min_message == Min(port_hello_messages \cup {my_message})
        im_the_best_supplier == min_message[3] = s.id
    IN  is_it_my_root_port \/ im_the_best_supplier

(***************************************************************************)
(* Switch.update_ports_status                                              *)
(***************************************************************************)
decide_ports(s, msgs) ==
    [p \in 0..(s.num_of_ports - 1) |->
        update_port_status(s, p, { <<m[1], m[2], m[3]>> : m \in { x \in msgs : x[4] = p } })]

\* variant: a lone forwarding port is left open
close_lone_port_never(status) == status

close_lone_port(status) ==
    IF Cardinality({p \in DOMAIN status : status[p]}) = 1
    THEN [p \in DOMAIN status |-> FALSE]
    ELSE status

\* variant: a lone forwarding port is left open when it is the root port
update_ports_status_sparing_root(s, msgs) ==
    [s EXCEPT !.pots_status =
        IF {p \in 0..(s.num_of_ports - 1) : decide_ports(s, msgs)[p]} = {s.root_port}
        THEN decide_ports(s, msgs)
        ELSE close_lone_port(decide_ports(s, msgs))]

update_ports_status(s, msgs) ==
    [s EXCEPT !.pots_status = close_lone_port(decide_ports(s, msgs))]

(***************************************************************************)
(* Switch.run_sycl: the switch with key i updates itself in place          *)
(***************************************************************************)
\* variant: the ports are decided before the hello parameters are updated
Switch_run_sycl_ports_first(S, i) ==
    LET msgs == hello_messages(S, S[i])
    IN  [S EXCEPT ![i] = update_hello_parameters_by_neighbors(
                             update_ports_status(S[i], msgs), msgs)]

Switch_run_sycl(S, i) ==
    LET msgs == hello_messages(S, S[i])
    IN  [S EXCEPT ![i] = update_ports_status(
                             update_hello_parameters_by_neighbors(S[i], msgs), msgs)]

(***************************************************************************)
(* Network.run_sycl: every switch once, in insertion order                 *)
(***************************************************************************)
RECURSIVE run_from(_, _, _)
run_from(S, ord, k) ==
    IF k > Len(ord) THEN S ELSE run_from(Switch_run_sycl(S, ord[k]), ord, k + 1)

\* variant: every switch reads the state the round started from
Network_run_sycl_snapshot(S, ord) ==
    [i \in DOMAIN S |->
        IF \E k \in 1..Len(ord) : ord[k] = i THEN Switch_run_sycl(S, i)[i] ELSE S[i]]

Network_run_sycl(S, ord) == run_from(S, ord, 1)

(***************************************************************************)
(* list indexing: neighbors[port_num] with Python's negative indices;      *)
(* NoPort stands for IndexError                                            *)
(***************************************************************************)
NoPort == 0 - 99
PortIndex(s, port_num) ==
    IF port_num >= 0
    THEN (IF port_num < s.num_of_ports THEN port_num ELSE NoPort)
    ELSE (IF port_num + s.num_of_ports >= 0 THEN port_num + s.num_of_ports ELSE NoPort)

(***************************************************************************)
(* Switch.add_neighbor, on the switch with key i                           *)
(***************************************************************************)
add_neighbor(S, i, neighbor_id, port_num) ==
    [S EXCEPT ![i].neighbors[PortIndex(S[i], port_num)] = Append(@, neighbor_id)]

(***************************************************************************)
(* Network.add_connection: a result [S, err]; add_neighbor on switch_1 has *)
(* taken effect when add_neighbor on switch_2 raises                       *)
(***************************************************************************)
add_connection(S, id1, port1, id2, port2) ==
    IF PortIndex(S[id1], port1) = NoPort THEN [S |-> S, err |-> "IndexError"]
    ELSE LET S1 == add_neighbor(S, id1, id2, port1)
         IN  IF PortIndex(S1[id2], port2) = NoPort THEN [S |-> S1, err |-> "IndexError"]
             ELSE [S |-> add_neighbor(S1, id2, id1, port2), err |-> "ok"]

(***************************************************************************)
(* itertools.permutations(connection, 2): the ordered pairs of positions,  *)
(* in the order they are generated                                         *)
(***************************************************************************)
RECURSIVE pairs_from(_, _, _)
pairs_from(k, i, j) ==
    IF i > k THEN << >>
    ELSE IF j > k THEN pairs_from(k, i + 1, 1)
    ELSE IF i = j THEN pairs_from(k, i, j + 1)
    ELSE <<(<<i, j>>)>> \o pairs_from(k, i, j + 1)

permutations2(connection) == pairs_from(Len(connection), 1, 1)

(***************************************************************************)
(* Network.add_connections for one connection: the loop over the pairs     *)
(* stops at the first exception (KeyError of self.switches[...], or        *)
(* IndexError inside add_connection) and keeps what was done before it     *)
(***************************************************************************)
RECURSIVE connect_pairs(_, _, _, _)
connect_pairs(S, connection, pairs, n) ==
    IF n > Len(pairs) THEN [S |-> S, err |-> "ok"]
    ELSE LET e1 == connection[pairs[n][1]]
             e2 == connection[pairs[n][2]]
         IN  IF e1[1] \notin DOMAIN S \/ e2[1] \notin DOMAIN S
             THEN [S |-> S, err |-> "KeyError"]
             ELSE LET r == add_connection(S, e1[1], e1[2], e2[1], e2[2])
                  IN  IF r.err # "ok" THEN r
                      ELSE connect_pairs(r.S, connection, pairs, n + 1)

add_connections(S, connection) ==
    connect_pairs(S, connection, permutations2(connection), 1)

(***************************************************************************)
(* Network.remove_switch, for a key that is present                        *)
(***************************************************************************)
\* variant: only the first port of every switch is pruned
purge_first_port(S, switch_id) ==
    [i \in DOMAIN S |->
        [S[i] EXCEPT !.neighbors[0] = SelectSeq(@, LAMBDA n : S[n].id # switch_id)]]

purge(S, switch_id) ==
    [i \in DOMAIN S |->
        [S[i] EXCEPT !.neighbors =
            [p \in DOMAIN S[i].neighbors |->
                SelectSeq(S[i].neighbors[p], LAMBDA n : S[n].id # switch_id)]]]

\* variant: a remaining switch that followed the removed one starts over
remove_switch_resetting(S, switch_id) ==
    [i \in (DOMAIN S) \ {switch_id} |->
        IF switch_id \in {S[i].root_id, S[i].closest_switch}
        THEN reset_hello_parameters(purge(S, switch_id)[i])
        ELSE purge(S, switch_id)[i]]

remove_switch(S, switch_id) ==
    [i \in (DOMAIN S) \ {switch_id} |-> purge(S, switch_id)[i]]

RemoveFromOrder(ord, switch_id) == SelectSeq(ord, LAMBDA x : x # switch_id)

(***************************************************************************)
(* The state after Network() with no switches.                             *)
(***************************************************************************)
NoSwitches == [i \in {} |-> 0]

Init ==
    /\ switches = NoSwitches
    /\ order = << >>
    /\ connected = 0
    /\ segments = {}
    /\ last = [op |-> "init", err |-> "ok"]
    /\ since = [op |-> "init", err |-> "ok"]
    /\ rounds = 0

Belief(s) == <<s.root_id, s.dist_from_root, s.closest_switch, s.root_port>>

LongestList(S) ==
    \A i \in DOMAIN S : \A p \in DOMAIN S[i].neighbors : Len(S[i].neighbors[p]) <= MaxNbrs

Farthest(S) == \A i \in DOMAIN S : S[i].dist_from_root <= MaxDist

(***************************************************************************)
(* Network.add_switch, its arguments drawn from the given sets             *)
(***************************************************************************)
\* variant: no test for a key that exists; the new switch takes its place
AddSwitchReplacing(ids, counts, weights) ==
    \E switch_id \in ids, num_of_ports \in counts, weight \in weights :
        /\ switches' = [i \in (DOMAIN switches) \cup {switch_id} |->
                           IF i = switch_id
                           THEN Switch(switch_id, num_of_ports, weight)
                           ELSE switches[i]]
        /\ order' = IF switch_id \in DOMAIN switches THEN order ELSE Append(order, switch_id)
        /\ last' = [op |-> "add_switch", err |-> "ok", id |-> switch_id,
                    ports |-> num_of_ports]
        /\ since' = last'
        /\ rounds' = 0
        /\ UNCHANGED <<connected, segments>>

AddSwitchOf(ids, counts, weights) ==
    \E switch_id \in ids, num_of_ports \in counts, weight \in weights :
        /\ IF switch_id \in DOMAIN switches
           THEN /\ UNCHANGED <<switches, order>>
                /\ last' = [op |-> "add_switch", err |-> "ValueError", id |-> switch_id,
                         ports |-> num_of_ports]
           ELSE /\ switches' = [i \in (DOMAIN switches) \cup {switch_id} |->
                                   IF i = switch_id
                                   THEN Switch(switch_id, num_of_ports, weight)
                                   ELSE switches[i]]
                /\ order' = Append(order, switch_id)
                /\ last' = [op |-> "add_switch", err |-> "ok", id |-> switch_id,
                         ports |-> num_of_ports]
        /\ since' = last'
        /\ rounds' = 0
        /\ UNCHANGED <<connected, segments>>

AddSwitch == AddSwitchOf(CallerIds, PortCounts, {1})

(***************************************************************************)
(* Network.add_connections([connection]), the connection drawn from G, as  *)
(* long as fewer than budget connections were given.  A call with a longer *)
(* list behaves as the calls for its connections one after the other, up   *)
(* to the first that raises.                                               *)
(***************************************************************************)
EndpointSet(connection) == {connection[k] : k \in 1..Len(connection)}

AddConnectionsFrom(G, budget) ==
    \E connection \in G :
        LET r == add_connections(switches, connection)
        IN  /\ connected < budget
            /\ connected' = connected + 1
            /\ LongestList(r.S)
            /\ switches' = r.S
            /\ segments' = IF r.err = "ok"
                           THEN segments \cup {EndpointSet(connection)}
                           ELSE segments
            /\ last' = [op |-> "add_connections", err |-> r.err]
            /\ since' = last'
            /\ rounds' = 0
            /\ UNCHANGED order

AddConnections == AddConnectionsFrom(Groups, MaxCallerConnections)

(***************************************************************************)
(* The connections of a well-formed call: distinct endpoints that exist,   *)
(* listed in increasing order.                                             *)
(***************************************************************************)
EndpointsOf(S) == {e \in SwitchIds \X (0..(MaxPorts - 1)) :
                      e[1] \in DOMAIN S /\ e[2] < S[e[1]].num_of_ports}

RECURSIVE Sorted(_)
Sorted(E) ==
    IF E = {} THEN << >>
    ELSE LET m == CHOOSE x \in E : \A y \in E : ~Less(y, x)
         IN  <<m>> \o Sorted(E \ {m})

ValidGroups(S) ==
    {Sorted(E) : E \in {X \in SUBSET EndpointsOf(S) :
                            Cardinality(X) >= 2 /\ Cardinality(X) <= MaxGroup}}

(***************************************************************************)
(* Network.remove_switch                                                   *)
(***************************************************************************)
RemoveSwitchOf(ids) ==
    \E switch_id \in ids :
        /\ IF switch_id \in DOMAIN switches
           THEN /\ switches' = remove_switch(switches, switch_id)
                /\ order' = RemoveFromOrder(order, switch_id)
                /\ last' = [op |-> "remove_switch", err |-> "ok", id |-> switch_id]
           ELSE /\ UNCHANGED <<switches, order>>
                /\ last' = [op |-> "remove_switch", err |-> "KeyError", id |-> switch_id]
        /\ since' = last'
        /\ rounds' = 0
        /\ UNCHANGED <<connected, segments>>

RemoveSwitch == RemoveSwitchOf(CallerIds)

(***************************************************************************)
(* Network.run_sycl                                                        *)
(***************************************************************************)
RoundTo(S) ==
    /\ Farthest(S)
    /\ switches' = S
    /\ last' = [op |-> "run_sycl", err |-> "ok",
                moved |-> {i \in DOMAIN switches : Belief(S[i]) # Belief(switches[i])},
                same |-> (S = switches)]
    /\ rounds' = IF rounds < MaxRounds THEN rounds + 1 ELSE rounds
    /\ UNCHANGED <<order, connected, segments, since>>

\* variant: the loop over the switches may stop before the last one
RunSyclStoppingEarly ==
    \E k \in 0..Len(order) : RoundTo(Network_run_sycl(switches, SubSeq(order, 1, k)))

RunSycl == RoundTo(Network_run_sycl(switches, order))

(***************************************************************************)
(* Any caller: every method, in any order, with arguments that may be      *)
(* wrong (a key that is absent or present, a port out of range).           *)
(***************************************************************************)
Next == AddSwitch \/ AddConnections \/ RemoveSwitch \/ RunSycl

Spec == Init /\ [][Next]_vars

(***************************************************************************)
(* A static topology: the network is built first, as main() builds it      *)
(* (the switches, then the connections), and then only rounds follow.      *)
(***************************************************************************)
Populate ==
    /\ since.op \in {"init", "add_switch"}
    /\ rounds = 0
    /\ AddSwitchOf(SwitchIds, PortCounts, Weights)

Wire ==
    /\ rounds = 0
    /\ AddConnectionsFrom(ValidGroups(switches), MaxConnections)

NextStatic == Populate \/ Wire \/ RunSycl

SpecStatic == Init /\ [][NextStatic]_vars

(***************************************************************************)
(* Three switches of weight 1 with two ports each, pairwise connected in a *)
(* cycle: built in any insertion order and any assignment of the ports.    *)
(***************************************************************************)
PopulateTriangle ==
    /\ since.op \in {"init", "add_switch"}
    /\ rounds = 0
    /\ AddSwitchOf(SwitchIds, {2}, {1})

FreshPairs(S) ==
    {g \in ValidGroups(S) :
        /\ Len(g) = 2
        /\ g[1][1] # g[2][1]
        /\ \A k \in 1..2 : S[g[k][1]].neighbors[g[k][2]] = << >>
        /\ \A p \in DOMAIN S[g[1][1]].neighbors :
              \A n \in 1..Len(S[g[1][1]].neighbors[p]) : S[g[1][1]].neighbors[p][n] # g[2][1]}

WireTriangle ==
    /\ rounds = 0
    /\ AddConnectionsFrom(FreshPairs(switches), 3)

NextTriangle == PopulateTriangle \/ WireTriangle \/ RunSycl

SpecTriangle == Init /\ [][NextTriangle]_vars

(***************************************************************************)
(* A growing network: switches (of MaxPorts ports) are added and pairs of   *)
(* switches that are not yet neighbors are connected on free ports, at any *)
(* time between the rounds; nothing is removed.                            *)
(***************************************************************************)
Grow == AddSwitchOf(SwitchIds, {MaxPorts}, Weights)

Link == AddConnectionsFrom(FreshPairs(switches), MaxLinks)

NextGrowing == Grow \/ Link \/ RunSycl

SpecGrowing == Init /\ [][NextGrowing]_vars

(***************************************************************************)
(* The driver, as main() runs it on a network of weight-1 switches: the    *)
(* switches are added (in any order), pairs of them are connected, rounds  *)
(* run until one changes nothing, one switch is removed, and rounds run    *)
(* again.  Each connection joins two switches that are not yet neighbors,  *)
(* on the lowest port of each that has no neighbor; the connections are    *)
(* given in increasing order of their pair of ids.                         *)
(***************************************************************************)
PopulateMesh ==
    /\ since.op \in {"init", "add_switch"}
    /\ rounds = 0
    /\ AddSwitchOf(MeshIds, {MeshPorts}, {1})

LinkedPairs(S) ==
    {ab \in (DOMAIN S) \X (DOMAIN S) :
        ab[1] < ab[2] /\ \E p \in DOMAIN S[ab[1]].neighbors :
                            \E n \in 1..Len(S[ab[1]].neighbors[p]) :
                                S[ab[1]].neighbors[p][n] = ab[2]}

FreePorts(s) == {p \in DOMAIN s.neighbors : s.neighbors[p] = << >>}

LowestFreePort(s) == CHOOSE p \in FreePorts(s) : \A q \in FreePorts(s) : p <= q

NextPairs(S) ==
    {<<(<<ab[1], LowestFreePort(S[ab[1]])>>), (<<ab[2], LowestFreePort(S[ab[2]])>>)>> :
        ab \in {xy \in (DOMAIN S) \X (DOMAIN S) :
                   /\ xy[1] < xy[2]
                   /\ FreePorts(S[xy[1]]) # {} /\ FreePorts(S[xy[2]]) # {}
                   /\ \A cd \in LinkedPairs(S) : Less(cd, xy)}}

WireMesh ==
    /\ since.op \in {"add_switch", "add_connections"}
    /\ rounds = 0
    /\ AddConnectionsFrom(NextPairs(switches), MaxMeshConnections)

RemoveConverged ==
    /\ since.op = "add_connections"
    /\ last.op = "run_sycl" /\ last.same
    /\ RemoveSwitchOf(MeshIds)

NextMesh == PopulateMesh \/ WireMesh \/ RemoveConverged \/ RunSycl

SpecMesh == Init /\ [][NextMesh]_vars

(***************************************************************************)
(* Predicates on the state used by the properties below.                   *)
(***************************************************************************)
Present == DOMAIN switches

NeighborIds(s) == {s.neighbors[p][k] : <<p, k>> \in
                      {pk \in (DOMAIN s.neighbors) \X (1..MaxNbrs + 1) :
                           pk[2] <= Len(s.neighbors[pk[1]])}}

Isolated(s) == \A p \in DOMAIN s.neighbors : s.neighbors[p] = << >>

SelfRooted(s) == Belief(s) = <<s.id, 0, s.id, 0 - 1>>

\* the switches reachable from those in R through neighbor lists
RECURSIVE Reach(_, _)
Reach(S, R) ==
    LET more == R \cup UNION {NeighborIds(S[i]) : i \in R}
    IN  IF more = R THEN R ELSE Reach(S, more)

ConnectedTopology ==
    /\ Present # {}
    /\ \A i \in Present : Reach(switches, {i}) = Present

SmallestId == CHOOSE m \in Present : \A i \in Present : m <= i

Converged ==
    /\ \A i \in Present : switches[i].root_id = SmallestId
    /\ last.op = "run_sycl" /\ last.moved = {}

C2_Convergence ==
    (ConnectedTopology /\ rounds > Cardinality(Present)) => Converged


\* three switches in a chain, the smallest added last, after convergence
C2_Witness ==
    /\ ConnectedTopology /\ Converged
    /\ rounds > Cardinality(Present)
    /\ Cardinality(Present) = 3
    /\ order[Len(order)] = SmallestId
    /\ \E i \in Present : switches[i].closest_switch \notin {i, SmallestId}
    /\ \E i \in Present : switches[i].weight > 1

(***************************************************************************)
(* C3.  Loop-freedom: on a static topology whose segments were built with  *)
(* add_connections, each port in at most one segment, once the state is a  *)
(* fixed point of run_sycl the forwarding ports form no loop: the graph on *)
(* the switches and the segments, with an edge between switch s and        *)
(* segment g exactly when s's port on g is forwarding, is acyclic.         *)
(***************************************************************************)
OneSegmentPerPort == \A g \in segments : \A h \in segments : g # h => g \cap h = {}

FixedPoint == Network_run_sycl(switches, order) = switches

\* edges between switches and segments: every port, and the forwarding ones
PhysicalEdges == {e \in Present \X segments : \E p \in 0..(MaxPorts - 1) : <<e[1], p>> \in e[2]}

ForwardingEdges ==
    {e \in Present \X segments :
        \E p \in DOMAIN switches[e[1]].pots_status :
            <<e[1], p>> \in e[2] /\ switches[e[1]].pots_status[p]}

\* a graph is acyclic when removing the edges of its leaves, again and again, removes all
RECURSIVE Acyclic(_)
Acyclic(E) ==
    LET leaf(e) == \/ Cardinality({f \in E : f[1] = e[1]}) = 1
                   \/ Cardinality({f \in E : f[2] = e[2]}) = 1
        rest == {e \in E : ~leaf(e)}
    IN  IF E = {} THEN TRUE
        ELSE IF rest = E THEN FALSE
        ELSE Acyclic(rest)

C4_IsolatedSwitch ==
    last.op = "run_sycl" =>
        \A i \in Present : Isolated(switches[i]) => SelfRooted(switches[i])

\* an isolated switch whose belief the round has changed
C4_Witness ==
    /\ last.op = "run_sycl"
    /\ \E i \in Present \cap last.moved : Isolated(switches[i])

(***************************************************************************)
(* C5.  Removal purges references: after remove_switch(x) of a present x,  *)
(* and after any rounds that follow, x is not a key of the network and     *)
(* is in no neighbor list of a remaining switch.                           *)
(***************************************************************************)
C5_RemovalPurges ==
    (since.op = "remove_switch" /\ since.err = "ok") =>
        /\ since.id \notin Present
        /\ \A i \in Present : since.id \notin NeighborIds(switches[i])

\* a remaining switch that still believes in the removed neighbor
C5_Witness ==
    /\ since.op = "remove_switch" /\ since.err = "ok"
    /\ \E i \in Present : switches[i].closest_switch = since.id

(***************************************************************************)
(* C6.  Group connect fan-out: a completed connection of k >= 2 endpoints  *)
(* on distinct switches, whose named ports had no neighbors, adds exactly  *)
(* k*(k-1) entries in all: the named port of each endpoint gains exactly   *)
(* one entry for each other endpoint's switch, and no other port changes.  *)
(***************************************************************************)
Entries(S) ==
    {<<i, p, k>> \in (DOMAIN S) \X (0..(MaxPorts - 1)) \X (1..(2 * MaxNbrs)) :
        p < S[i].num_of_ports /\ k <= Len(S[i].neighbors[p])}

Occurrences(list, n) == Cardinality({k \in 1..Len(list) : list[k] = n})

FreshGroup(S, g) ==
    /\ Cardinality(g) >= 2
    /\ \A e \in g : \A f \in g : e # f => e[1] # f[1]
    /\ \A e \in g : S[e[1]].neighbors[e[2]] = << >>

FanOut(S, T, g) ==
    /\ Cardinality(Entries(T)) - Cardinality(Entries(S))
          = Cardinality(g) * (Cardinality(g) - 1)
    /\ \A e \in g : \A f \in g \ {e} :
          Occurrences(T[e[1]].neighbors[e[2]], f[1]) = 1
    /\ \A i \in DOMAIN S : \A p \in DOMAIN S[i].neighbors :
          <<i, p>> \notin g => T[i].neighbors[p] = S[i].neighbors[p]

C6_FanOut ==
    [][(last'.op = "add_connections" /\ last'.err = "ok" /\ segments' # segments)
          => LET g == CHOOSE x \in segments' \ segments : TRUE
             IN  FreshGroup(switches, g) => FanOut(switches, switches', g)]_vars

(***************************************************************************)
(* C7.  Symmetric neighbor relation: in every state, for all switches A    *)
(* and B of the network, B is in some neighbor list of A if and only if A  *)
(* is in some neighbor list of B.                                          *)
(***************************************************************************)
C7_Symmetric ==
    \A a \in Present : \A b \in Present :
        (b \in NeighborIds(switches[a])) <=> (a \in NeighborIds(switches[b]))

(***************************************************************************)
(* C8.  Scenario A: switches 0 and 1 added in that order, one port each,   *)
(* weight 1, connected port 0 to port 0.  After the first round switch 0   *)
(* is (root 0, dist 0, upstream 0, no root port), switch 1 is (root 0,     *)
(* dist 1, upstream 0, root port 0), and the port of each is blocking.     *)
(***************************************************************************)
ScenarioA ==
    /\ order = <<0, 1>>
    /\ \A i \in Present : switches[i].num_of_ports = 1 /\ switches[i].weight = 1
    /\ connected = 1
    /\ segments = {{<<0, 0>>, <<1, 0>>}}

C8_ScenarioA ==
    (ScenarioA /\ rounds = 1) =>
        /\ Belief(switches[0]) = <<0, 0, 0, 0 - 1>>
        /\ Belief(switches[1]) = <<0, 1, 0, 0>>
        /\ ~switches[0].pots_status[0]
        /\ ~switches[1].pots_status[0]

C8_Witness == ScenarioA /\ rounds = 1 /\ last.op = "run_sycl" /\ last.moved = {1}

(***************************************************************************)
(* C9.  Triangle convergence bound: three switches of weight 1 with two    *)
(* ports each, pairwise connected in a cycle and started self-rooted:      *)
(* every round after the third leaves the belief of every switch           *)
(* unchanged.                                                              *)
(***************************************************************************)
Triangle ==
    /\ Cardinality(Present) = 3
    /\ connected = 3
    /\ \A i \in Present : NeighborIds(switches[i]) = Present \ {i}

C9_TriangleBound == (Triangle /\ rounds > 3) => last.moved = {}

\* the triangle with the largest switch added first, past its third round
C9_Witness ==
    /\ Triangle /\ rounds > 3 /\ last.moved = {}
    /\ \A i \in Present : order[1] >= i
    /\ \E i \in Present : switches[i].dist_from_root = 1

(***************************************************************************)
(* C10.  Triangle forwarding ports, as stated: once the belief state has   *)
(* stopped changing, each switch of the triangle has at most one of its    *)
(* two ports forwarding.                                                   *)
(***************************************************************************)
Forwarding(s) == {p \in DOMAIN s.pots_status : s.pots_status[p]}

BeliefSettled == last.op = "run_sycl" /\ last.moved = {}

C10_AtMostOneForwarding ==
    (Triangle /\ BeliefSettled) =>
        \A i \in Present : Cardinality(Forwarding(switches[i])) <= 1

(***************************************************************************)
(* C10, amended.  Once the belief state has stopped changing, only the     *)
(* switch with the largest id has at most one of its two ports forwarding: *)
(* its port decision leaves only the root port, which the lone-port rule   *)
(* closes, so it has none; the two other switches keep both their ports    *)
(* forwarding.                                                             *)
(***************************************************************************)
C10_TriangleForwarding ==
    (Triangle /\ BeliefSettled) =>
        \A i \in Present :
            Forwarding(switches[i]) =
                IF \A j \in Present : j <= i THEN {} ELSE DOMAIN switches[i].pots_status

C10_Witness ==
    /\ Triangle /\ BeliefSettled
    /\ \E i \in Present : Forwarding(switches[i]) = {} /\ switches[i].root_port >= 0

(***************************************************************************)
(* C11.  Round order and visibility: run_sycl updates every switch of the  *)
(* network exactly once, in insertion order and in place: the state a      *)
(* switch B ends the round with is its own update computed from the hello  *)
(* messages of its neighbors as B sees them, a neighbor A that precedes B  *)
(* in insertion order in its state after this round's update, a neighbor   *)
(* that follows B (and B itself) in its state from the start of the round. *)
(***************************************************************************)
Position(ord, i) == CHOOSE k \in 1..Len(ord) : ord[k] = i

\* order lists every key of the network once
EachOnce ==
    /\ Len(order) = Cardinality(Present)
    /\ {order[k] : k \in 1..Len(order)} = Present

\* the network as switch b finds it when its turn comes in the round
SeenBy(b) ==
    [a \in Present |->
        IF Position(order, a) < Position(order, b) THEN switches'[a] ELSE switches[a]]

C11_RoundVisibility ==
    [][last'.op = "run_sycl"
          => /\ EachOnce
             /\ \A b \in Present : switches'[b] = Switch_run_sycl(SeenBy(b), b)[b]]_vars

\* a first round in which a switch took over the root its neighbor had only
\* just learned: it read that neighbor's state after the neighbor's update
C11_Witness ==
    /\ last.op = "run_sycl" /\ rounds = 1
    /\ \E b \in Present :
          LET a == switches[b].closest_switch
          IN  /\ a \in Present \ {b}
              /\ Position(order, a) < Position(order, b)
              /\ switches[b].root_id \notin {a, b}
              /\ switches[b].root_id = switches[a].root_id

(***************************************************************************)
(* C12.  add_switch(id, num_of_ports, weight): with an id that is a key of *)
(* the network it fails (ValueError) and leaves the dictionary, its order, *)
(* every neighbor list and every switch unchanged; with an id that is not, *)
(* it appends at the end of the order a switch with root_id = id,          *)
(* dist_from_root = 0, closest_switch = id, root_port = -1, an empty       *)
(* neighbor list on each of its num_of_ports ports and all of them         *)
(* forwarding, and leaves the other switches unchanged.                    *)
(***************************************************************************)
C12_AddSwitch ==
    [][last'.op = "add_switch"
          => IF last'.id \in Present
             THEN /\ last'.err = "ValueError"
                  /\ switches' = switches
                  /\ order' = order
             ELSE /\ last'.err = "ok"
                  /\ order' = Append(order, last'.id)
                  /\ DOMAIN switches' = Present \cup {last'.id}
                  /\ \A i \in Present : switches'[i] = switches[i]
                  /\ LET s == switches'[last'.id]
                         ports == 0..(last'.ports - 1)
                     IN  /\ s.id = last'.id
                         /\ Belief(s) = <<last'.id, 0, last'.id, 0 - 1>>
                         /\ s.num_of_ports = last'.ports
                         /\ s.neighbors = [p \in ports |-> << >>]
                         /\ s.pots_status = [p \in ports |-> TRUE]]_vars

\* a refused add_switch for the id of a switch that has neighbors, follows a
\* root and has another port count than the one asked for
C12_Witness ==
    /\ last.op = "add_switch" /\ last.err = "ValueError"
    /\ Cardinality(Present) = 2
    /\ ~SelfRooted(switches[last.id])
    /\ ~Isolated(switches[last.id])
    /\ switches[last.id].num_of_ports # last.ports

(***************************************************************************)
(* C13.  remove_switch frame: remove_switch(x) of a present x leaves, for  *)
(* every remaining switch, root_id, dist_from_root, closest_switch,        *)
(* root_port, weight, num_of_ports and the status of every port unchanged, *)
(* also when x is its root or its closest switch; every neighbor list is   *)
(* the old one with the entries for x deleted, and a port whose list       *)
(* becomes empty is still a port.                                          *)
(***************************************************************************)
Without(list, x) == SelectSeq(list, LAMBDA n : n # x)

C13_RemoveFrame ==
    [][(last'.op = "remove_switch" /\ last'.err = "ok")
          => /\ DOMAIN switches' = Present \ {last'.id}
             /\ \A i \in Present \ {last'.id} :
                   /\ Belief(switches'[i]) = Belief(switches[i])
                   /\ switches'[i].id = i
                   /\ switches'[i].weight = switches[i].weight
                   /\ switches'[i].num_of_ports = switches[i].num_of_ports
                   /\ switches'[i].pots_status = switches[i].pots_status
                   /\ DOMAIN switches'[i].neighbors = DOMAIN switches[i].neighbors
                   /\ \A p \in DOMAIN switches[i].neighbors :
                         switches'[i].neighbors[p] = Without(switches[i].neighbors[p], last'.id)]_vars

\* the removed switch was the root and the closest switch of a remaining one,
\* whose root port has just lost its only neighbor
C13_Witness ==
    /\ last.op = "remove_switch" /\ last.err = "ok"
    /\ \E i \in Present :
          /\ switches[i].root_id = last.id
          /\ switches[i].closest_switch = last.id
          /\ switches[i].root_port \in DOMAIN switches[i].neighbors
          /\ switches[i].neighbors[switches[i].root_port] = << >>

(***************************************************************************)
(* C14.  Adopt-belief rule: for a switch that gathers at least one hello   *)
(* message in its update, let candidateMin be the least gathered tuple     *)
(* (root_id, distance, sender id, arrival port) in lexicographic order, so *)
(* that of two messages with the same root and distance the one of the     *)
(* smaller sender wins, and lastMin = (root_id, dist_from_root - weight,   *)
(* closest_switch, root_port) taken before the update.  If candidateMin >  *)
(* lastMin the switch becomes (id, 0, id, -1); otherwise it becomes        *)
(* (candidateMin root, candidateMin distance + weight, candidateMin        *)
(* sender, candidateMin port).                                             *)
(***************************************************************************)
\* a before b: root first, then distance, then sender, then port
Before(a, b) ==
    \/ a[1] < b[1]
    \/ a[1] = b[1] /\ a[2] < b[2]
    \/ a[1] = b[1] /\ a[2] = b[2] /\ a[3] < b[3]
    \/ a[1] = b[1] /\ a[2] = b[2] /\ a[3] = b[3] /\ a[4] < b[4]

\* what switch b gathers when its turn comes in the round
GatheredBy(b) == hello_messages(SeenBy(b), switches[b])

C14_AdoptBelief ==
    [][last'.op = "run_sycl"
          => \A b \in Present :
                LET s == switches[b]
                    gathered == GatheredBy(b)
                    least == {m \in gathered : \A o \in gathered \ {m} : Before(m, o)}
                    candidateMin == CHOOSE m \in least : TRUE
                    lastMin == <<s.root_id, s.dist_from_root - s.weight,
                                 s.closest_switch, s.root_port>>
                IN  gathered # {} =>
                        /\ Cardinality(least) = 1
                        /\ Belief(switches'[b]) =
                              IF Before(lastMin, candidateMin)
                              THEN <<b, 0, b, 0 - 1>>
                              ELSE <<candidateMin[1], candidateMin[2] + s.weight,
                                     candidateMin[3], candidateMin[4]>>]_vars

\* a switch that has settled on the smaller of two neighbors offering the
\* same root at the same distance
C14_Witness ==
    /\ last.op = "run_sycl" /\ last.moved = {} /\ since.op = "add_connections"
    /\ \E b \in Present : \E a1 \in NeighborIds(switches[b]) : \E a2 \in NeighborIds(switches[b]) :
          /\ a1 < a2
          /\ switches[a1].root_id = switches[a2].root_id
          /\ switches[a1].dist_from_root = switches[a2].dist_from_root
          /\ switches[b].closest_switch = a1
          /\ switches[b].dist_from_root = switches[a1].dist_from_root + switches[b].weight

(***************************************************************************)
(* C15.  Port-state decision, as stated: in a switch's update, before the  *)
(* lone-port rule, port p is set to forwarding if and only if p is the     *)
(* root port the update has just set, or the switch's own hello message    *)
(* after the update (root_id, dist_from_root, id) is the lexicographic     *)
(* minimum among itself and the messages gathered on p (gathered before    *)
(* the update of the hello parameters); every other port is set to         *)
(* blocking, and a port without neighbors is always decided forwarding.    *)
(* The decision is seen in the state whenever the lone-port rule does not  *)
(* override it, that is unless exactly one port was decided forwarding.    *)
(***************************************************************************)
\* a before b for hello messages: root first, then distance, then sender
Before3(a, b) ==
    \/ a[1] < b[1]
    \/ a[1] = b[1] /\ a[2] < b[2]
    \/ a[1] = b[1] /\ a[2] = b[2] /\ a[3] < b[3]

\* the messages switch b gathers on port p, without the port
GatheredOn(b, p) == {<<m[1], m[2], m[3]>> : m \in {x \in GatheredBy(b) : x[4] = p}}

OwnIsLeast(b, p) ==
    \A m \in GatheredOn(b, p) : ~Before3(m, get_hello_message(switches'[b]))

DecidedByOwnMessage(b) ==
    [p \in DOMAIN switches[b].pots_status |->
        p = switches'[b].root_port \/ OwnIsLeast(b, p)]

\* the status of the ports that follows from a decision
Shown(decision) ==
    [p \in DOMAIN decision |->
        decision[p] /\ Cardinality({q \in DOMAIN decision : decision[q]}) # 1]

C15_DecisionByOwnMessage ==
    [][last'.op = "run_sycl"
          => \A b \in Present :
                switches'[b].pots_status = Shown(DecidedByOwnMessage(b))]_vars

(***************************************************************************)
(* C15, amended.  Port p is decided forwarding if and only if p is the     *)
(* root port the update has just set, or the lexicographic minimum among   *)
(* the switch's own hello message after the update and the messages        *)
(* gathered on p carries the switch's own id as its sender.  For a switch  *)
(* that is not its own neighbor this is the same as its own message being  *)
(* the minimum; a switch that is its own neighbor on p also gathers there  *)
(* the message it sent before the update, and when that one is the         *)
(* minimum the port is decided forwarding as well.                         *)
(***************************************************************************)
LeastSender(b, p) ==
    LET all == GatheredOn(b, p) \cup {get_hello_message(switches'[b])}
        least == CHOOSE m \in all : \A o \in all \ {m} : Before3(m, o)
    IN  least[3]

DecidedBySender(b) ==
    [p \in DOMAIN switches[b].pots_status |->
        p = switches'[b].root_port \/ LeastSender(b, p) = b]

C15_DecisionBySender ==
    [][last'.op = "run_sycl"
          => \A b \in Present :
                switches'[b].pots_status = Shown(DecidedBySender(b))]_vars

\* a switch connected to itself has lost its root and started over: on each
\* port the least message is the one it sent before, and the port forwards
C15_Witness ==
    /\ last.op = "run_sycl" /\ since.op = "remove_switch" /\ rounds = 1
    /\ \E b \in Present \cap last.moved :
          /\ SelfRooted(switches[b])
          /\ switches[b].num_of_ports = 2
          /\ \A p \in DOMAIN switches[b].neighbors :
                /\ switches[b].pots_status[p]
                /\ \E n \in 1..Len(switches[b].neighbors[p]) : switches[b].neighbors[p][n] = b

(***************************************************************************)
(* C16.  Lone-port rule: after every round, whatever the topology and the  *)
(* state the round started from, no switch has exactly one forwarding      *)
(* port: a switch whose port decision leaves exactly one port forwarding,  *)
(* be it its root port, ends the round with none, and a switch whose       *)
(* decision leaves none or at least two keeps the decision as it is.       *)
(***************************************************************************)
\* the decision of switch b in the round: update_port_status on every port,
\* with the hello parameters the round has set and the messages it gathered
Decision(b) == decide_ports(switches'[b], GatheredBy(b))

C16_LonePort ==
    [][last'.op = "run_sycl"
          => \A b \in Present :
                LET decided == {p \in DOMAIN Decision(b) : Decision(b)[p]}
                IN  /\ Cardinality(Forwarding(switches'[b])) # 1
                    /\ Cardinality(decided) = 1 => Forwarding(switches'[b]) = {}
                    /\ Cardinality(decided) # 1 => switches'[b].pots_status = Decision(b)]_vars

\* after a round, one switch whose only forwarding port was its root port
\* has none left, next to a switch that keeps two
C16_Witness ==
    /\ last.op = "run_sycl"
    /\ \E b \in Present :
          /\ switches[b].root_port >= 0
          /\ Forwarding(switches[b]) = {}
          /\ \A p \in DOMAIN switches[b].neighbors :
                p # switches[b].root_port => switches[b].neighbors[p] # << >>
    /\ \E c \in Present : Cardinality(Forwarding(switches[c])) >= 2

(***************************************************************************)
(* C17.  Atomicity of add_connections on an absent id: a call for a group  *)
(* that names a switch id that is not a key of the network fails           *)
(* (KeyError) and adds no entry to any neighbor list: every neighbor list  *)
(* is as before the call, wherever the absent id stands in the group.      *)
(***************************************************************************)
C17_ConnectAtomic ==
    [][(last'.op = "add_connections" /\ last'.err = "KeyError")
          => \A i \in Present : switches'[i].neighbors = switches[i].neighbors]_vars

(***************************************************************************)
(* C18.  Belief well-formedness: in every state reached by any sequence of *)
(* add_switch, add_connections, remove_switch and run_sycl, with weights   *)
(* of at least 1, every switch has root_id <= id and dist_from_root >= 0;  *)
(* it has root_id = id exactly when it is self-rooted (dist_from_root = 0, *)
(* closest_switch = id, root_port = -1), and otherwise its root_port is    *)
(* the index of one of its ports.                                          *)
(***************************************************************************)
WellFormed(s) ==
    /\ s.root_id <= s.id
    /\ s.dist_from_root >= 0
    /\ (s.root_id = s.id) <=>
          (s.dist_from_root = 0 /\ s.closest_switch = s.id /\ s.root_port = 0 - 1)
    /\ s.root_id # s.id => s.root_port \in 0..(s.num_of_ports - 1)

C18_WellFormedBelief == \A i \in Present : WellFormed(switches[i])

\* after two rounds, a self-rooted switch with neighbors next to a switch
\* that follows it through its second port
C18_Witness ==
    /\ last.op = "run_sycl" /\ rounds >= 2
    /\ \E i \in Present : SelfRooted(switches[i]) /\ ~Isolated(switches[i])
    /\ \E j \in Present :
          /\ switches[j].root_id < j
          /\ switches[j].root_port = 1
          /\ switches[j].dist_from_root = switches[j].weight

(***************************************************************************)
(* C19.  No reset without a removal: in a run that only adds switches,     *)
(* connects them and runs rounds, with weights of at least 1 and in any    *)
(* insertion order, no round takes a switch that follows another root      *)
(* (root_id < id) back to the self-rooted state, and no round makes the    *)
(* tuple (root_id, dist_from_root, closest_switch, root_port) of a switch  *)
(* greater, in lexicographic order, than it was before the round (the      *)
(* calls between two rounds leave the tuple as it is).                     *)
(***************************************************************************)
C19_NoSpuriousReset ==
    [][last'.op = "run_sycl"
          => \A i \in Present :
                /\ switches[i].root_id < i => ~SelfRooted(switches'[i])
                /\ ~Before(Belief(switches[i]), Belief(switches'[i]))]_vars

\* the first round after a connection: one switch has just given up being
\* the root, and a switch that followed it before the round still does
C19_Witness ==
    /\ last.op = "run_sycl" /\ rounds = 1 /\ since.op = "add_connections"
    /\ \E i \in Present \ last.moved :
          /\ switches[i].root_id < i
          /\ switches[i].root_id \in last.moved
          /\ switches[i].closest_switch = switches[i].root_id

(***************************************************************************)
(* C20.  A stale root is purged after a removal: when remove_switch(x) is  *)
(* applied to a network at its fixed point (all weights 1, any insertion   *)
(* order) and only rounds follow, then after finitely many rounds, here    *)
(* more rounds than switches remain, no remaining switch has root_id = x   *)
(* or closest_switch = x, in that round and in every later one, and the    *)
(* dist_from_root of every switch is at all times at most the number of    *)
(* remaining switches.                                                     *)
(***************************************************************************)
Stale(s, x) == s.root_id = x \/ s.closest_switch = x

C20_StaleRootPurged ==
    (since.op = "remove_switch" /\ since.err = "ok") =>
        /\ \A i \in Present : switches[i].dist_from_root <= Cardinality(Present)
        /\ rounds > Cardinality(Present) =>
              \A i \in Present : ~Stale(switches[i], since.id)

=============================================================================
